---- MODULE Spec2Model ----
(***************************************************************************)
(* Waitlist form validation of src/scripts/main.js (initFormValidation):   *)
(* the per-field rule table, validateEmail, validateField, validateForm,   *)
(* the blur / input / submit handlers and the success view; and the header *)
(* scroll behaviour and the menu toggle, whose function expressions the    *)
(* script contains twice; and the rel attribute of the external links      *)
(* (initExternalLinks).                                                    *)
(*                                                                         *)
(* Strings are sequences of one-character strings, so that trim(), length  *)
(* and the email regular expression are computed character by character.   *)
(***************************************************************************)
EXTENDS Integers, Sequences, FiniteSets, TLC

VARIABLES
  pc,               \* "load" before the script ran, "ready" after, "pure"/"done" for direct calls
  present,          \* elements that exist in the document
  docOrder,         \* the five fields in document (tree) order inside the form
  handlers,         \* listeners registered so far: <<element, event type>>
  warned,           \* console.warn was called by initFormValidation
  thrown,           \* an exception propagated out of initFormValidation
  value,            \* field.value
  ariaInvalid,      \* the aria-invalid attribute of each field: "null" (absent), "true", "false"
  errorClass,       \* field.classList contains 'form__input--error'
  errorText,        \* textContent of the field's error element
  fieldDisplay,     \* style.display of the .form__field container of each field
  submitDisplay,    \* style.display of the .form__submit control
  successVisible,   \* successMessage.classList contains 'visible'
  scrolled,         \* successMessage.scrollIntoView was called
  focused,          \* document.activeElement: a field, or "body"
  defaultPrevented, \* e.preventDefault() was called on the most recent submit event
  recording,        \* whether the history below is kept in this behaviour
  everInvalid,      \* history: fields that some validation has marked invalid
  call,             \* direct call of a function: its name, field and return value
  script,           \* the function expression of the script that runs next, "loaded" after the last
  scrollY,          \* window.scrollY
  scrollListeners,  \* the onScroll closures listening to 'scroll', in registration order
  lastScrollY,      \* lastScrollY of each initHeaderScrollBehavior closure
  ticking,          \* ticking of each initHeaderScrollBehavior closure
  rafQueue,         \* closures whose updateHeaderVisibility waits for the next animation frame
  headerHidden,     \* header.classList contains 'header--hidden'
  ariaExpanded,     \* the aria-expanded attribute of the menu toggle: "null" (absent), "true", "false"
  clickListeners,   \* number of click listeners on the menu toggle
  keydownListeners, \* number of keydown listeners on the document
  target,           \* the target attribute of each <a> of the document: "null" (absent) or its value
  rel,              \* the rel attribute of each <a> of the document: "null" (absent) or its value
  linksInitialized  \* the initExternalLinks function expression has run

vars == <<pc, present, docOrder, handlers, warned, thrown, value, ariaInvalid,
          errorClass, errorText, fieldDisplay, submitDisplay, successVisible,
          scrolled, focused, defaultPrevented, recording, everInvalid, call,
          script, scrollY, scrollListeners, lastScrollY, ticking, rafQueue,
          headerHidden, ariaExpanded, clickListeners, keydownListeners,
          target, rel, linksInitialized>>

domVars == <<value, ariaInvalid, errorClass, errorText, fieldDisplay, submitDisplay,
             successVisible, scrolled, focused, defaultPrevented, recording, everInvalid>>

\* the state of the header and of the menu toggle
pageVars == <<script, scrollY, scrollListeners, lastScrollY, ticking, rafQueue,
              headerHidden, ariaExpanded, clickListeners, keydownListeners>>

\* the state of the form engine outside the document
formVars == <<pc, docOrder, handlers, warned, thrown, call>>

\* the anchors of the document
linkVars == <<target, rel, linksInitialized>>

----------------------------------------------------------------------------
(* Bounds *)

\* longest string handed to validateEmail / validateField in direct calls
MaxLen == 5

\* most elements that may be absent from the document at initialization
MaxMissing == 2

\* most <a> elements in the document
MaxLinks == 3

----------------------------------------------------------------------------
(* The document *)

\* Object.values(fieldValidations): the declaration order of the fields
FieldOrder == <<"email", "name", "role", "experience", "goal">>

Fields == {FieldOrder[i] : i \in 1..Len(FieldOrder)}

\* the id of the element that shows a field's error text
ErrorOf(f) ==
  [email |-> "email-error", name |-> "name-error", role |-> "role-error",
   experience |-> "experience-error", goal |-> "goal-error"][f]

ErrorElements == {ErrorOf(f) : f \in Fields}

Elements == {"waitlist-form", "form-success", "form__submit"} \cup Fields \cup ErrorElements

\* arrangements of the fields in the markup: declaration order, reversed,
\* and one that moves the two selects and the name in front of the email
Arrangements ==
  { <<"email", "name", "role", "experience", "goal">>,
    <<"goal", "experience", "role", "name", "email">>,
    <<"experience", "name", "email", "goal", "role">> }

----------------------------------------------------------------------------
(* Strings *)

Alphabet == {"a", "@", ".", " "}

\* \s of the regular expression and the characters String.prototype.trim strips
IsSpace(c) == c \in {" ", "\t", "\n", "\r"}

RECURSIVE StringsOfLen(_)
StringsOfLen(n) ==
  IF n = 0 THEN {<<>>}
  ELSE {Append(s, c) : s \in StringsOfLen(n - 1), c \in Alphabet}

StringsUpTo(n) == UNION {StringsOfLen(k) : k \in 0..n}

RECURSIVE TrimStart(_)
TrimStart(s) ==
  IF s # <<>> /\ IsSpace(Head(s)) THEN TrimStart(Tail(s)) ELSE s

RECURSIVE TrimEnd(_)
TrimEnd(s) ==
  IF s # <<>> /\ IsSpace(s[Len(s)]) THEN TrimEnd(SubSeq(s, 1, Len(s) - 1)) ELSE s

\* String.prototype.trim
Trim(s) == TrimEnd(TrimStart(s))

----------------------------------------------------------------------------
(* Rules *)

\* a character that [^\s@] matches
IsLocal(c) == ~IsSpace(c) /\ c # "@"

\* the pattern with * in place of +: a run may be empty
RECURSIVE emailRegex_star(_, _, _, _)
emailRegex_star(s, i, part, count) ==
  \/ /\ i <= Len(s)
     /\ IsLocal(s[i])
     /\ emailRegex_star(s, i + 1, part, count + 1)
  \/ CASE part = 1 -> i <= Len(s) /\ s[i] = "@" /\ emailRegex_star(s, i + 1, 2, 0)
       [] part = 2 -> i <= Len(s) /\ s[i] = "." /\ emailRegex_star(s, i + 1, 3, 0)
       [] OTHER    -> i = Len(s) + 1

\* /^[^\s@]+@[^\s@]+\.[^\s@]+$/ as a backtracking matcher: part 1, 2, 3 are
\* the three [^\s@]+ runs, count is the number of characters the current run
\* has taken; a run first tries to take one more character and otherwise,
\* once it has at least one, goes on to what follows it in the pattern.
RECURSIVE emailRegex(_, _, _, _)
emailRegex(s, i, part, count) ==
  \/ /\ i <= Len(s)
     /\ IsLocal(s[i])
     /\ emailRegex(s, i + 1, part, count + 1)
  \/ /\ count >= 1
     /\ CASE part = 1 -> i <= Len(s) /\ s[i] = "@" /\ emailRegex(s, i + 1, 2, 0)
          [] part = 2 -> i <= Len(s) /\ s[i] = "." /\ emailRegex(s, i + 1, 3, 0)
          [] OTHER    -> i = Len(s) + 1

validateEmail(email) == emailRegex(email, 1, 1, 0)

\* the rules of each field; an option the source leaves out is falsy here
\* (FALSE, 0, the empty string)
fieldValidations ==
  [email |->
     [required |-> TRUE, minLength |-> 0, email |-> TRUE,
      requiredMessage |-> "Email address is required",
      minLengthMessage |-> "",
      emailMessage |-> "Please enter a valid email address"],
   name |->
     [required |-> TRUE, minLength |-> 2, email |-> FALSE,
      requiredMessage |-> "Full name is required",
      minLengthMessage |-> "Name must be at least 2 characters",
      emailMessage |-> ""],
   role |->
     [required |-> TRUE, minLength |-> 0, email |-> FALSE,
      requiredMessage |-> "Current role is required",
      minLengthMessage |-> "",
      emailMessage |-> ""],
   experience |->
     [required |-> TRUE, minLength |-> 0, email |-> FALSE,
      requiredMessage |-> "Please select your years of experience",
      minLengthMessage |-> "",
      emailMessage |-> ""],
   goal |->
     [required |-> TRUE, minLength |-> 0, email |-> FALSE,
      requiredMessage |-> "Please select your primary goal",
      minLengthMessage |-> "",
      emailMessage |-> ""]]

\* a || b on message strings
OrElse(a, b) == IF a # "" THEN a ELSE b

\* the chain with the length check moved in front of the required check
errorMessageOf_lengthFirst(validationRules, raw) ==
  LET v == Trim(raw) IN
  IF validationRules.minLength # 0 /\ Len(v) < validationRules.minLength
    THEN OrElse(validationRules.minLengthMessage, "Minimum characters required")
  ELSE IF validationRules.required /\ v = <<>>
    THEN OrElse(validationRules.requiredMessage, "This field is required")
  ELSE IF validationRules.email /\ ~validateEmail(v)
    THEN OrElse(validationRules.emailMessage, "Please enter a valid email address")
  ELSE ""

\* the chain reading field.value without trim()
errorMessageOf_noTrim(validationRules, raw) ==
  LET v == raw IN
  IF validationRules.required /\ v = <<>>
    THEN OrElse(validationRules.requiredMessage, "This field is required")
  ELSE IF validationRules.minLength # 0 /\ Len(v) < validationRules.minLength
    THEN OrElse(validationRules.minLengthMessage, "Minimum characters required")
  ELSE IF validationRules.email /\ ~validateEmail(v)
    THEN OrElse(validationRules.emailMessage, "Please enter a valid email address")
  ELSE ""

\* the chain with value.length <= minLength in the length check
errorMessageOf_offByOne(validationRules, raw) ==
  LET v == Trim(raw) IN
  IF validationRules.required /\ v = <<>>
    THEN OrElse(validationRules.requiredMessage, "This field is required")
  ELSE IF validationRules.minLength # 0 /\ Len(v) <= validationRules.minLength
    THEN OrElse(validationRules.minLengthMessage, "Minimum characters required")
  ELSE IF validationRules.email /\ ~validateEmail(v)
    THEN OrElse(validationRules.emailMessage, "Please enter a valid email address")
  ELSE ""

\* the if / else-if chain of validateField: the error message for a raw value
errorMessageOf(validationRules, raw) ==
  LET v == Trim(raw) IN
  IF validationRules.required /\ v = <<>>
    THEN OrElse(validationRules.requiredMessage, "This field is required")
  ELSE IF validationRules.minLength # 0 /\ Len(v) < validationRules.minLength
    THEN OrElse(validationRules.minLengthMessage, "Minimum characters required")
  ELSE IF validationRules.email /\ ~validateEmail(v)
    THEN OrElse(validationRules.emailMessage, "Please enter a valid email address")
  ELSE ""

\* the part of the document validateField writes
Dom == [ariaInvalid |-> ariaInvalid, errorClass |-> errorClass, errorText |-> errorText]

\* validateField whose error branch falls through to the final return true
validateField_returnsTrue(f, val, dom) ==
  LET errorMessage == errorMessageOf(fieldValidations[f], val[f]) IN
  IF errorMessage # ""
    THEN [ret |-> TRUE,
          dom |-> [ariaInvalid |-> [dom.ariaInvalid EXCEPT ![f] = "true"],
                   errorClass  |-> [dom.errorClass EXCEPT ![f] = TRUE],
                   errorText   |-> [dom.errorText EXCEPT ![f] = errorMessage]]]
    ELSE [ret |-> TRUE,
          dom |-> [ariaInvalid |-> [dom.ariaInvalid EXCEPT ![f] = "false"],
                   errorClass  |-> [dom.errorClass EXCEPT ![f] = FALSE],
                   errorText   |-> [dom.errorText EXCEPT ![f] = ""]]]

\* validateField whose valid branch leaves the error class on the field
validateField_keepsClass(f, val, dom) ==
  LET errorMessage == errorMessageOf(fieldValidations[f], val[f]) IN
  IF errorMessage # ""
    THEN [ret |-> FALSE,
          dom |-> [ariaInvalid |-> [dom.ariaInvalid EXCEPT ![f] = "true"],
                   errorClass  |-> [dom.errorClass EXCEPT ![f] = TRUE],
                   errorText   |-> [dom.errorText EXCEPT ![f] = errorMessage]]]
    ELSE [ret |-> TRUE,
          dom |-> [ariaInvalid |-> [dom.ariaInvalid EXCEPT ![f] = "false"],
                   errorClass  |-> dom.errorClass,
                   errorText   |-> [dom.errorText EXCEPT ![f] = ""]]]

\* validateField with classList.toggle in place of classList.add
validateField_toggle(f, val, dom) ==
  LET errorMessage == errorMessageOf(fieldValidations[f], val[f]) IN
  IF errorMessage # ""
    THEN [ret |-> FALSE,
          dom |-> [ariaInvalid |-> [dom.ariaInvalid EXCEPT ![f] = "true"],
                   errorClass  |-> [dom.errorClass EXCEPT ![f] = ~dom.errorClass[f]],
                   errorText   |-> [dom.errorText EXCEPT ![f] = errorMessage]]]
    ELSE [ret |-> TRUE,
          dom |-> [ariaInvalid |-> [dom.ariaInvalid EXCEPT ![f] = "false"],
                   errorClass  |-> [dom.errorClass EXCEPT ![f] = FALSE],
                   errorText   |-> [dom.errorText EXCEPT ![f] = ""]]]

\* validateField(field, errorElement, rules) on field values val and document
\* dom: the return value and the document it leaves
validateField(f, val, dom) ==
  LET errorMessage == errorMessageOf(fieldValidations[f], val[f]) IN
  IF errorMessage # ""
    THEN [ret |-> FALSE,
          dom |-> [ariaInvalid |-> [dom.ariaInvalid EXCEPT ![f] = "true"],
                   errorClass  |-> [dom.errorClass EXCEPT ![f] = TRUE],
                   errorText   |-> [dom.errorText EXCEPT ![f] = errorMessage]]]
    ELSE [ret |-> TRUE,
          dom |-> [ariaInvalid |-> [dom.ariaInvalid EXCEPT ![f] = "false"],
                   errorClass  |-> [dom.errorClass EXCEPT ![f] = FALSE],
                   errorText   |-> [dom.errorText EXCEPT ![f] = ""]]]

RECURSIVE validateFormFrom(_, _, _, _)

\* the forEach with isValid = fieldValid: the last field decides
RECURSIVE validateFormFrom_lastWins(_, _, _, _)
validateFormFrom_lastWins(i, val, dom, isValid) ==
  IF i > Len(FieldOrder) THEN [ret |-> isValid, dom |-> dom]
  ELSE LET r == validateField(FieldOrder[i], val, dom) IN
       validateFormFrom_lastWins(i + 1, val, r.dom, r.ret)

\* the loop leaving at the first field that fails
RECURSIVE validateFormFrom_shortCircuit(_, _, _, _)
validateFormFrom_shortCircuit(i, val, dom, isValid) ==
  IF i > Len(FieldOrder) THEN [ret |-> isValid, dom |-> dom]
  ELSE LET r == validateField(FieldOrder[i], val, dom) IN
       IF ~r.ret THEN [ret |-> FALSE, dom |-> r.dom]
       ELSE validateFormFrom_shortCircuit(i + 1, val, r.dom, isValid)

\* the forEach of validateForm from the i-th field on, isValid being the
\* accumulator
validateFormFrom(i, val, dom, isValid) ==
  IF i > Len(FieldOrder) THEN [ret |-> isValid, dom |-> dom]
  ELSE LET r == validateField(FieldOrder[i], val, dom) IN
       validateFormFrom(i + 1, val, r.dom, IF ~r.ret THEN FALSE ELSE isValid)

validateForm(val, dom) == validateFormFrom(1, val, dom, TRUE)

\* the lookup walking the rule table instead of the document
querySelectorInvalid_declared(order, aria) ==
  LET hits == {i \in 1..Len(FieldOrder) : aria[FieldOrder[i]] = "true"} IN
  IF hits = {} THEN "null"
  ELSE FieldOrder[CHOOSE i \in hits : \A j \in hits : i <= j]

\* form.querySelector('[aria-invalid="true"]'): the first match in document
\* order, "null" when there is none
querySelectorInvalid(order, aria) ==
  LET hits == {i \in 1..Len(order) : aria[order[i]] = "true"} IN
  IF hits = {} THEN "null"
  ELSE order[CHOOSE i \in hits : \A j \in hits : i <= j]

----------------------------------------------------------------------------
(* Initialization of the script *)

AllHandlers ==
  {<<f, "blur">> : f \in Fields} \cup {<<f, "input">> : f \in Fields}
    \cup {<<"waitlist-form", "submit">>}

\* the forEach of setupRealTimeValidation from the i-th field on: the
\* listeners added, and whether field.addEventListener threw on a null field
RECURSIVE setupRealTimeValidation(_, _, _)
setupRealTimeValidation(i, pres, added) ==
  IF i > Len(FieldOrder) THEN [handlers |-> added, thrown |-> FALSE]
  ELSE IF FieldOrder[i] \notin pres THEN [handlers |-> added, thrown |-> TRUE]
  ELSE setupRealTimeValidation(i + 1, pres,
         added \cup {<<FieldOrder[i], "blur">>, <<FieldOrder[i], "input">>})

\* the body of the initFormValidation function expression
initFormValidation ==
  /\ pc = "load"
  /\ pc' = "ready"
  /\ IF "waitlist-form" \notin present
       THEN /\ warned' = TRUE
            /\ handlers' = handlers
            /\ thrown' = FALSE
       ELSE LET r == setupRealTimeValidation(1, present, handlers) IN
            /\ warned' = FALSE
            /\ thrown' = r.thrown
            /\ handlers' = IF r.thrown THEN r.handlers
                           ELSE r.handlers \cup {<<"waitlist-form", "submit">>}
  /\ UNCHANGED <<present, docOrder, call>>
  /\ UNCHANGED pageVars
  /\ UNCHANGED linkVars
  /\ UNCHANGED domVars

----------------------------------------------------------------------------
(* Events; the document is complete wherever they are taken *)

\* values a user gives the fields: a text input holds any text, a select one
\* of its options
Values ==
  [email      |-> {<<>>, <<"a", "@", "b">>, <<" ", "a", "@", "b", ".", "c", "o">>},
   name       |-> {<<>>, <<"a", " ">>, <<"a", "b">>},
   role       |-> {<<>>, <<"d", "e", "v">>},
   experience |-> {<<>>, <<"1", "-", "3">>},
   goal       |-> {<<>>, <<"j", "o", "b">>}]

MarkedInvalid(aria) == {f \in Fields : aria[f] = "true"}

\* the history after a validation left the aria-invalid attributes aria
Recorded(aria) ==
  IF recording THEN everInvalid \cup MarkedInvalid(aria) ELSE everInvalid

\* the blur listener calling validateForm() instead of validateField
onFieldBlur_validatesForm(f) ==
  /\ pc = "ready"
  /\ <<f, "blur">> \in handlers
  /\ LET r == validateForm(value, Dom) IN
     /\ ariaInvalid' = r.dom.ariaInvalid
     /\ errorClass' = r.dom.errorClass
     /\ errorText' = r.dom.errorText
     /\ everInvalid' = Recorded(r.dom.ariaInvalid)
  /\ UNCHANGED <<pc, present, docOrder, handlers, warned, thrown, call>>
  /\ UNCHANGED pageVars
  /\ UNCHANGED linkVars
  /\ UNCHANGED <<value, fieldDisplay, submitDisplay, successVisible, scrolled,
                 focused, defaultPrevented, recording>>

\* the blur listener closing over the loop's last binding: every field's
\* listener validates the last field of the table
onFieldBlur_lastField(f) ==
  /\ pc = "ready"
  /\ <<f, "blur">> \in handlers
  /\ LET r == validateField(FieldOrder[Len(FieldOrder)], value, Dom) IN
     /\ ariaInvalid' = r.dom.ariaInvalid
     /\ errorClass' = r.dom.errorClass
     /\ errorText' = r.dom.errorText
     /\ everInvalid' = Recorded(r.dom.ariaInvalid)
  /\ UNCHANGED <<pc, present, docOrder, handlers, warned, thrown, call>>
  /\ UNCHANGED pageVars
  /\ UNCHANGED linkVars
  /\ UNCHANGED <<value, fieldDisplay, submitDisplay, successVisible, scrolled,
                 focused, defaultPrevented, recording>>

\* the blur listener of a field
onFieldBlur(f) ==
  /\ pc = "ready"
  /\ <<f, "blur">> \in handlers
  /\ LET r == validateField(f, value, Dom) IN
     /\ ariaInvalid' = r.dom.ariaInvalid
     /\ errorClass' = r.dom.errorClass
     /\ errorText' = r.dom.errorText
     /\ everInvalid' = Recorded(r.dom.ariaInvalid)
  /\ UNCHANGED <<pc, present, docOrder, handlers, warned, thrown, call>>
  /\ UNCHANGED pageVars
  /\ UNCHANGED linkVars
  /\ UNCHANGED <<value, fieldDisplay, submitDisplay, successVisible, scrolled,
                 focused, defaultPrevented, recording>>

\* the input listener with its test negated: it validates unless the field
\* is marked invalid
onFieldInput_inverted(f, v) ==
  /\ pc = "ready"
  /\ <<f, "input">> \in handlers
  /\ v # value[f]
  /\ value' = [value EXCEPT ![f] = v]
  /\ IF ariaInvalid[f] # "true"
       THEN LET r == validateField(f, value', Dom) IN
            /\ ariaInvalid' = r.dom.ariaInvalid
            /\ errorClass' = r.dom.errorClass
            /\ errorText' = r.dom.errorText
            /\ everInvalid' = Recorded(r.dom.ariaInvalid)
       ELSE UNCHANGED <<ariaInvalid, errorClass, errorText, everInvalid>>
  /\ UNCHANGED <<pc, present, docOrder, handlers, warned, thrown, call>>
  /\ UNCHANGED pageVars
  /\ UNCHANGED linkVars
  /\ UNCHANGED <<fieldDisplay, submitDisplay, successVisible, scrolled,
                 focused, defaultPrevented, recording>>

\* the input listener without its test: it validates on every input
onFieldInput_always(f, v) ==
  /\ pc = "ready"
  /\ <<f, "input">> \in handlers
  /\ v # value[f]
  /\ value' = [value EXCEPT ![f] = v]
  /\ LET r == validateField(f, value', Dom) IN
     /\ ariaInvalid' = r.dom.ariaInvalid
     /\ errorClass' = r.dom.errorClass
     /\ errorText' = r.dom.errorText
     /\ everInvalid' = Recorded(r.dom.ariaInvalid)
  /\ UNCHANGED <<pc, present, docOrder, handlers, warned, thrown, call>>
  /\ UNCHANGED pageVars
  /\ UNCHANGED linkVars
  /\ UNCHANGED <<fieldDisplay, submitDisplay, successVisible, scrolled,
                 focused, defaultPrevented, recording>>

\* the field's value becomes v and its input listener runs
onFieldInput(f, v) ==
  /\ pc = "ready"
  /\ <<f, "input">> \in handlers
  /\ v # value[f]
  /\ value' = [value EXCEPT ![f] = v]
  /\ IF ariaInvalid[f] = "true"
       THEN LET r == validateField(f, value', Dom) IN
            /\ ariaInvalid' = r.dom.ariaInvalid
            /\ errorClass' = r.dom.errorClass
            /\ errorText' = r.dom.errorText
            /\ everInvalid' = Recorded(r.dom.ariaInvalid)
       ELSE UNCHANGED <<ariaInvalid, errorClass, errorText, everInvalid>>
  /\ UNCHANGED <<pc, present, docOrder, handlers, warned, thrown, call>>
  /\ UNCHANGED pageVars
  /\ UNCHANGED linkVars
  /\ UNCHANGED <<fieldDisplay, submitDisplay, successVisible, scrolled,
                 focused, defaultPrevented, recording>>

\* element.focus(): nothing happens for an element that is not rendered
focus(el, display, current) ==
  IF display[el] = "none" THEN current ELSE el

\* the part of the document showSuccessMessage writes
View ==
  [fieldDisplay |-> fieldDisplay, submitDisplay |-> submitDisplay,
   successVisible |-> successVisible, scrolled |-> scrolled]

\* showSuccessMessage without the line that hides the submit control
showSuccessMessage_keepsSubmit(view) ==
  [fieldDisplay   |-> [f \in Fields |-> "none"],
   submitDisplay  |-> view.submitDisplay,
   successVisible |-> TRUE,
   scrolled       |-> TRUE]

\* showSuccessMessage with classList.toggle in place of classList.add
showSuccessMessage_toggle(view) ==
  [fieldDisplay   |-> [f \in Fields |-> "none"],
   submitDisplay  |-> "none",
   successVisible |-> ~view.successVisible,
   scrolled       |-> TRUE]

\* showSuccessMessage(): every .form__field and the .form__submit get
\* display 'none', the success message gets the class 'visible' and is
\* scrolled into view
showSuccessMessage(view) ==
  [fieldDisplay   |-> [f \in Fields |-> "none"],
   submitDisplay  |-> "none",
   successVisible |-> TRUE,
   scrolled       |-> TRUE]

\* the submit listener of the form
handleFormSubmit ==
  /\ pc = "ready"
  /\ <<"waitlist-form", "submit">> \in handlers
  /\ defaultPrevented' = TRUE
  /\ LET r == validateForm(value, Dom) IN
     /\ ariaInvalid' = r.dom.ariaInvalid
     /\ errorClass' = r.dom.errorClass
     /\ errorText' = r.dom.errorText
     /\ everInvalid' = Recorded(r.dom.ariaInvalid)
     /\ IF ~r.ret
          THEN LET firstInvalidField == querySelectorInvalid(docOrder, r.dom.ariaInvalid) IN
               /\ focused' = IF firstInvalidField # "null"
                               THEN focus(firstInvalidField, fieldDisplay, focused)
                               ELSE focused
               /\ UNCHANGED <<fieldDisplay, submitDisplay, successVisible, scrolled>>
          ELSE LET shown == showSuccessMessage(View) IN
               /\ fieldDisplay' = shown.fieldDisplay
               /\ submitDisplay' = shown.submitDisplay
               /\ successVisible' = shown.successVisible
               /\ scrolled' = shown.scrolled
               /\ UNCHANGED focused
  /\ UNCHANGED <<pc, present, docOrder, handlers, warned, thrown, call>>
  /\ UNCHANGED pageVars
  /\ UNCHANGED linkVars
  /\ UNCHANGED <<value, recording>>

----------------------------------------------------------------------------
(* Direct calls of the two validation functions on arbitrary strings *)

callValidateEmail ==
  /\ pc = "pure"
  /\ pc' = "done"
  /\ call' = [call EXCEPT !.fn = "validateEmail",
                          !.ret = validateEmail(value[call.field])]
  /\ UNCHANGED <<present, docOrder, handlers, warned, thrown>>
  /\ UNCHANGED pageVars
  /\ UNCHANGED linkVars
  /\ UNCHANGED domVars

callValidateField ==
  /\ pc = "pure"
  /\ pc' = "done"
  /\ LET r == validateField(call.field, value, Dom) IN
     /\ call' = [call EXCEPT !.fn = "validateField", !.ret = r.ret]
     /\ ariaInvalid' = r.dom.ariaInvalid
     /\ errorClass' = r.dom.errorClass
     /\ errorText' = r.dom.errorText
     /\ everInvalid' = Recorded(r.dom.ariaInvalid)
  /\ UNCHANGED <<present, docOrder, handlers, warned, thrown>>
  /\ UNCHANGED pageVars
  /\ UNCHANGED linkVars
  /\ UNCHANGED <<value, fieldDisplay, submitDisplay, successVisible, scrolled,
                 focused, defaultPrevented, recording>>

\* validateField called a second time on the same field, its value unchanged
callValidateFieldAgain ==
  /\ pc = "done"
  /\ call.fn = "validateField"
  /\ pc' = "again"
  /\ LET r == validateField(call.field, value, Dom) IN
     /\ call' = [call EXCEPT !.ret = r.ret]
     /\ ariaInvalid' = r.dom.ariaInvalid
     /\ errorClass' = r.dom.errorClass
     /\ errorText' = r.dom.errorText
     /\ everInvalid' = Recorded(r.dom.ariaInvalid)
  /\ UNCHANGED <<present, docOrder, handlers, warned, thrown>>
  /\ UNCHANGED pageVars
  /\ UNCHANGED linkVars
  /\ UNCHANGED <<value, fieldDisplay, submitDisplay, successVisible, scrolled,
                 focused, defaultPrevented, recording>>

----------------------------------------------------------------------------
(* The header and the menu toggle *)

\* the elements the header and menu code looks up
PageElements == {"header", "mobile-menu-toggle"}

\* scroll positions on both sides of the two thresholds of updateHeaderVisibility
ScrollPositions == {0, 100, 101, 200, 201, 300}

\* the function expressions of the script that touch the header or the menu
\* toggle, each followed by the one that runs after it
After ==
  [header1 |-> "menu1", menu1 |-> "keys1", keys1 |-> "header2",
   header2 |-> "menu2", menu2 |-> "keys2", keys2 |-> "loaded"]

\* the body of an initHeaderScrollBehavior function expression: a closure with
\* its own lastScrollY and ticking, and its onScroll added to 'scroll'
initHeaderScrollBehavior ==
  /\ script \in {"header1", "header2"}
  /\ script' = After[script]
  /\ IF "header" \notin present
       THEN UNCHANGED <<lastScrollY, ticking, scrollListeners>>
       ELSE /\ lastScrollY' = Append(lastScrollY, scrollY)
            /\ ticking' = Append(ticking, FALSE)
            /\ scrollListeners' = Append(scrollListeners, Len(lastScrollY) + 1)
  /\ UNCHANGED <<scrollY, rafQueue, headerHidden, ariaExpanded, clickListeners,
                 keydownListeners>>
  /\ UNCHANGED linkVars
  /\ UNCHANGED <<present, formVars, domVars>>

\* the body of an initMobileMenu function expression
initMobileMenu ==
  /\ script \in {"menu1", "menu2"}
  /\ script' = After[script]
  /\ clickListeners' = IF "mobile-menu-toggle" \notin present
                         THEN clickListeners
                         ELSE clickListeners + 1
  /\ UNCHANGED <<scrollY, scrollListeners, lastScrollY, ticking, rafQueue,
                 headerHidden, ariaExpanded, keydownListeners>>
  /\ UNCHANGED linkVars
  /\ UNCHANGED <<present, formVars, domVars>>

\* the body of an initKeyboardNavigation function expression
initKeyboardNavigation ==
  /\ script \in {"keys1", "keys2"}
  /\ script' = After[script]
  /\ keydownListeners' = keydownListeners + 1
  /\ UNCHANGED <<scrollY, scrollListeners, lastScrollY, ticking, rafQueue,
                 headerHidden, ariaExpanded, clickListeners>>
  /\ UNCHANGED linkVars
  /\ UNCHANGED <<present, formVars, domVars>>

\* what the closures of the header share with the frame scheduler
HeaderState ==
  [headerHidden |-> headerHidden, lastScrollY |-> lastScrollY,
   ticking |-> ticking, rafQueue |-> rafQueue]

\* updateHeaderVisibility without the test currentScrollY > 200
updateHeaderVisibility_noThreshold(h, currentScrollY, st) ==
  [st EXCEPT
     !.headerHidden =
        IF currentScrollY <= 100 THEN FALSE
        ELSE IF currentScrollY > st.lastScrollY[h] THEN TRUE
        ELSE IF currentScrollY < st.lastScrollY[h] THEN FALSE
        ELSE @,
     !.lastScrollY[h] = currentScrollY,
     !.ticking[h] = FALSE]

\* updateHeaderVisibility without its last line, ticking = false
updateHeaderVisibility_keepsTicking(h, currentScrollY, st) ==
  [st EXCEPT
     !.headerHidden =
        IF currentScrollY <= 100 THEN FALSE
        ELSE IF currentScrollY > st.lastScrollY[h] /\ currentScrollY > 200 THEN TRUE
        ELSE IF currentScrollY < st.lastScrollY[h] THEN FALSE
        ELSE @,
     !.lastScrollY[h] = currentScrollY]

\* updateHeaderVisibility of closure h, window.scrollY being currentScrollY
updateHeaderVisibility(h, currentScrollY, st) ==
  [st EXCEPT
     !.headerHidden =
        IF currentScrollY <= 100 THEN FALSE
        ELSE IF currentScrollY > st.lastScrollY[h] /\ currentScrollY > 200 THEN TRUE
        ELSE IF currentScrollY < st.lastScrollY[h] THEN FALSE
        ELSE @,
     !.lastScrollY[h] = currentScrollY,
     !.ticking[h] = FALSE]

\* onScroll of closure h
onScroll(h, st) ==
  IF ~st.ticking[h]
    THEN [st EXCEPT !.rafQueue = Append(@, h), !.ticking[h] = TRUE]
    ELSE st

\* a 'scroll' event goes to the listeners in registration order
RECURSIVE dispatchScroll(_, _)
dispatchScroll(listeners, st) ==
  IF listeners = <<>> THEN st
  ELSE dispatchScroll(Tail(listeners), onScroll(Head(listeners), st))

\* the callbacks of one animation frame run in the order they were requested
RECURSIVE runCallbacks(_, _, _)
runCallbacks(queue, currentScrollY, st) ==
  IF queue = <<>> THEN st
  ELSE runCallbacks(Tail(queue), currentScrollY,
                    updateHeaderVisibility(Head(queue), currentScrollY, st))

\* the page is scrolled to y and the 'scroll' event is dispatched
scroll(y) ==
  /\ script = "loaded"
  /\ y # scrollY
  /\ scrollY' = y
  /\ LET st == dispatchScroll(scrollListeners, HeaderState) IN
     /\ headerHidden' = st.headerHidden
     /\ lastScrollY' = st.lastScrollY
     /\ ticking' = st.ticking
     /\ rafQueue' = st.rafQueue
  /\ UNCHANGED <<script, scrollListeners, ariaExpanded, clickListeners, keydownListeners>>
  /\ UNCHANGED linkVars
  /\ UNCHANGED <<present, formVars, domVars>>

\* the browser runs the animation frame callbacks requested so far
animationFrame ==
  /\ script = "loaded"
  /\ rafQueue # <<>>
  /\ LET st == runCallbacks(rafQueue, scrollY, [HeaderState EXCEPT !.rafQueue = <<>>]) IN
     /\ headerHidden' = st.headerHidden
     /\ lastScrollY' = st.lastScrollY
     /\ ticking' = st.ticking
     /\ rafQueue' = st.rafQueue
  /\ UNCHANGED <<script, scrollY, scrollListeners, ariaExpanded, clickListeners,
                 keydownListeners>>
  /\ UNCHANGED linkVars
  /\ UNCHANGED <<present, formVars, domVars>>

\* the click listener of the menu toggle: setAttribute('aria-expanded', !isExpanded)
menuToggleListener(expanded) ==
  LET isExpanded == expanded = "true" IN
  IF ~isExpanded THEN "true" ELSE "false"

\* a click goes to each of the n listeners of the toggle
RECURSIVE dispatchClick(_, _)
dispatchClick(n, expanded) ==
  IF n = 0 THEN expanded
  ELSE dispatchClick(n - 1, menuToggleListener(expanded))

\* the user clicks the menu toggle
menuToggleClick ==
  /\ script = "loaded"
  /\ "mobile-menu-toggle" \in present
  /\ ariaExpanded' = dispatchClick(clickListeners, ariaExpanded)
  /\ UNCHANGED <<script, scrollY, scrollListeners, lastScrollY, ticking, rafQueue,
                 headerHidden, clickListeners, keydownListeners>>
  /\ UNCHANGED linkVars
  /\ UNCHANGED <<present, formVars, domVars>>

\* the keydown listener of the document on an Escape key
escapeListener(st) ==
  IF "mobile-menu-toggle" \in present /\ st.ariaExpanded = "true"
    THEN [ariaExpanded |-> "false", focused |-> "mobile-menu-toggle"]
    ELSE st

RECURSIVE dispatchEscape(_, _)
dispatchEscape(n, st) ==
  IF n = 0 THEN st
  ELSE dispatchEscape(n - 1, escapeListener(st))

\* the user presses Escape
keydownEscape ==
  /\ script = "loaded"
  /\ LET st == dispatchEscape(keydownListeners,
                              [ariaExpanded |-> ariaExpanded, focused |-> focused]) IN
     /\ ariaExpanded' = st.ariaExpanded
     /\ focused' = st.focused
  /\ UNCHANGED <<script, scrollY, scrollListeners, lastScrollY, ticking, rafQueue,
                 headerHidden, clickListeners, keydownListeners>>
  /\ UNCHANGED linkVars
  /\ UNCHANGED <<present, formVars>>
  /\ UNCHANGED <<value, ariaInvalid, errorClass, errorText, fieldDisplay, submitDisplay,
                 successVisible, scrolled, defaultPrevented, recording, everInvalid>>

----------------------------------------------------------------------------
(* External links *)

\* target attributes an <a> may carry in the markup
TargetValues == {"null", "_blank", "_self"}

\* rel attributes an <a> may carry in the markup: none, the empty string,
\* another link type, one of the two security link types, both
RelValues == {"null", "", "nofollow", "noopener", "noopener noreferrer"}

\* !link.getAttribute('rel'): null and the empty string are falsy
NoRel(r) == r \in {"null", ""}

\* document.querySelectorAll('a[target="_blank"]')
externalLinks(tg) == {l \in DOMAIN tg : tg[l] = "_blank"}

\* the body of the initExternalLinks function expression
initExternalLinks ==
  /\ ~linksInitialized
  /\ rel' = [l \in DOMAIN rel |->
               IF l \in externalLinks(target) /\ NoRel(rel[l])
                 THEN "noopener noreferrer"
                 ELSE rel[l]]
  /\ linksInitialized' = TRUE
  /\ UNCHANGED target
  /\ UNCHANGED pageVars
  /\ UNCHANGED <<present, formVars, domVars>>

----------------------------------------------------------------------------
(* Specifications *)

\* the header and the menu toggle left out of a behaviour
PageIdle ==
  /\ script = "off"
  /\ scrollY = 0
  /\ scrollListeners = <<>>
  /\ lastScrollY = <<>>
  /\ ticking = <<>>
  /\ rafQueue = <<>>
  /\ headerHidden = FALSE
  /\ ariaExpanded = "null"
  /\ clickListeners = 0
  /\ keydownListeners = 0

\* the anchors left out of a behaviour
LinksIdle ==
  /\ target = <<>>
  /\ rel = <<>>
  /\ linksInitialized = FALSE

\* the page as loaded: nothing typed, nothing validated, nothing hidden
FreshDom ==
  /\ value = [f \in Fields |-> <<>>]
  /\ ariaInvalid = [f \in Fields |-> "null"]
  /\ errorClass = [f \in Fields |-> FALSE]
  /\ errorText = [f \in Fields |-> ""]
  /\ fieldDisplay = [f \in Fields |-> ""]
  /\ submitDisplay = ""
  /\ successVisible = FALSE
  /\ scrolled = FALSE
  /\ focused = "body"
  /\ defaultPrevented = FALSE
  /\ everInvalid = {}

NoCall == [fn |-> "none", field |-> "email", ret |-> FALSE]

\* a complete document, in some arrangement, before the script runs
Init ==
  /\ pc = "load"
  /\ present = Elements
  /\ docOrder \in Arrangements
  /\ handlers = {}
  /\ warned = FALSE
  /\ thrown = FALSE
  /\ FreshDom
  /\ recording = FALSE
  /\ call = NoCall
  /\ PageIdle
  /\ LinksIdle

Next ==
  \/ initFormValidation
  \/ \E f \in Fields : onFieldBlur(f)
  \/ \E f \in Fields : \E v \in Values[f] : onFieldInput(f, v)
  \/ handleFormSubmit

Spec == Init /\ [][Next]_vars

\* the same page in declaration order, with the history of invalid marks kept
InitHist ==
  /\ pc = "load"
  /\ present = Elements
  /\ docOrder = FieldOrder
  /\ handlers = {}
  /\ warned = FALSE
  /\ thrown = FALSE
  /\ FreshDom
  /\ recording = TRUE
  /\ call = NoCall
  /\ PageIdle
  /\ LinksIdle

SpecHist == InitHist /\ [][Next]_vars

\* a document with up to MaxMissing elements absent, before the script runs
InitDoc ==
  /\ pc = "load"
  /\ \E missing \in SUBSET Elements :
       /\ Cardinality(missing) <= MaxMissing
       /\ present = Elements \ missing
  /\ docOrder = FieldOrder
  /\ handlers = {}
  /\ warned = FALSE
  /\ thrown = FALSE
  /\ FreshDom
  /\ recording = FALSE
  /\ call = NoCall
  /\ PageIdle
  /\ LinksIdle

NextDoc == initFormValidation

SpecDoc == InitDoc /\ [][NextDoc]_vars

\* Examples of section 8 of the specification
ExampleStrings ==
  { <<"a", "@", "b", ".", "c", "o">>,
    <<"n", "o", "-", "a", "t", "-", "s", "i", "g", "n", ".", "c", "o", "m">>,
    <<"a", "@", "b">> }

\* one field holds an arbitrary string and one of the functions is called
InitPure ==
  /\ pc = "pure"
  /\ present = Elements
  /\ docOrder = FieldOrder
  /\ handlers = {}
  /\ warned = FALSE
  /\ thrown = FALSE
  /\ \E f \in Fields : \E s \in StringsUpTo(MaxLen) \cup ExampleStrings :
       /\ value = [g \in Fields |-> IF g = f THEN s ELSE <<>>]
       /\ call = [fn |-> "none", field |-> f, ret |-> FALSE]
  /\ ariaInvalid = [f \in Fields |-> "null"]
  /\ errorClass = [f \in Fields |-> FALSE]
  /\ errorText = [f \in Fields |-> ""]
  /\ fieldDisplay = [f \in Fields |-> ""]
  /\ submitDisplay = ""
  /\ successVisible = FALSE
  /\ scrolled = FALSE
  /\ focused = "body"
  /\ defaultPrevented = FALSE
  /\ recording = FALSE
  /\ everInvalid = {}
  /\ PageIdle
  /\ LinksIdle

NextPure ==
  \/ callValidateEmail
  \/ callValidateField
  \/ callValidateFieldAgain

SpecPure == InitPure /\ [][NextPure]_vars

\* the page before the script runs: the header and the menu toggle may each
\* be there or not, the page may be scrolled, the toggle's markup may carry
\* any aria-expanded
InitPage ==
  /\ pc = "page"
  /\ \E some \in SUBSET PageElements : present = Elements \cup some
  /\ docOrder = FieldOrder
  /\ handlers = {}
  /\ warned = FALSE
  /\ thrown = FALSE
  /\ FreshDom
  /\ recording = FALSE
  /\ call = NoCall
  /\ script = "header1"
  /\ scrollY \in ScrollPositions
  /\ scrollListeners = <<>>
  /\ lastScrollY = <<>>
  /\ ticking = <<>>
  /\ rafQueue = <<>>
  /\ headerHidden = FALSE
  /\ ariaExpanded \in {"null", "true", "false"}
  /\ clickListeners = 0
  /\ keydownListeners = 0
  /\ LinksIdle

NextPage ==
  \/ initHeaderScrollBehavior
  \/ initMobileMenu
  \/ initKeyboardNavigation
  \/ \E y \in ScrollPositions : scroll(y)
  \/ animationFrame
  \/ menuToggleClick
  \/ keydownEscape

SpecPage == InitPage /\ [][NextPage]_vars

\* a document with up to MaxLinks anchors, each with any target and any rel,
\* before the script runs
InitLinks ==
  /\ pc = "links"
  /\ present = Elements
  /\ docOrder = FieldOrder
  /\ handlers = {}
  /\ warned = FALSE
  /\ thrown = FALSE
  /\ FreshDom
  /\ recording = FALSE
  /\ call = NoCall
  /\ PageIdle
  /\ \E n \in 0..MaxLinks :
       /\ target \in [1..n -> TargetValues]
       /\ rel \in [1..n -> RelValues]
  /\ linksInitialized = FALSE

NextLinks == initExternalLinks

SpecLinks == InitLinks /\ [][NextLinks]_vars

----------------------------------------------------------------------------
(* What the specification says of a value, stated without the code *)

\* a non-empty run of non-space non-@ characters, '@', such a run, '.', such
\* a run: i is the place of the '@' and j the place of the '.'
EmailFormat(s) ==
  \E i \in 1..Len(s) : \E j \in 1..Len(s) :
    /\ 1 < i /\ i + 1 < j /\ j < Len(s)
    /\ s[i] = "@"
    /\ s[j] = "."
    /\ \A k \in 1..Len(s) : k \notin {i, j} => IsLocal(s[k])

RequiredFails(f, raw) == fieldValidations[f].required /\ Trim(raw) = <<>>

MinLengthFails(f, raw) ==
  fieldValidations[f].minLength # 0 /\ Len(Trim(raw)) < fieldValidations[f].minLength

EmailFails(f, raw) == fieldValidations[f].email /\ ~EmailFormat(Trim(raw))

\* every rule configured for field f passes on the trimmed value
FieldOk(f, raw) ==
  ~RequiredFails(f, raw) /\ ~MinLengthFails(f, raw) /\ ~EmailFails(f, raw)

AllFieldsOk == \A f \in Fields : FieldOk(f, value[f])

\* the two phases of the form
Editing ==
  /\ ~successVisible
  /\ submitDisplay = ""
  /\ \A f \in Fields : fieldDisplay[f] = ""

Submitted ==
  /\ successVisible
  /\ submitDisplay = "none"
  /\ \A f \in Fields : fieldDisplay[f] = "none"

\* the invalid flag and the error text of f say whether its value is valid
UIReflects(f) ==
  /\ ariaInvalid[f] = (IF FieldOk(f, value[f]) THEN "false" ELSE "true")
  /\ (errorText[f] = "") <=> FieldOk(f, value[f])

----------------------------------------------------------------------------
(* Claims *)

\* C1: the phase leaves Editing for Submitted (success message visible, field
\* containers and submit control hidden) only in a submit event in which all
\* five fields pass validation on their current values; a submit in which some
\* field is invalid leaves the success message hidden and the phase Editing.
C1_SubmittedOnlyByValidSubmit ==
  [][ /\ (~successVisible /\ successVisible') => (handleFormSubmit /\ AllFieldsOk /\ Submitted')
      /\ (~Submitted /\ Submitted') => (handleFormSubmit /\ AllFieldsOk)
      /\ (handleFormSubmit /\ Editing /\ ~AllFieldsOk) => (Editing' /\ ~successVisible')
    ]_vars

\* the phase is Submitted and the values that were submitted are still there
C1_Witness == Submitted /\ AllFieldsOk /\ defaultPrevented

\* C2: once the phase is Submitted it stays Submitted after any further blur,
\* input and submit events.
C2_SubmittedIsFinal == [][Submitted => Submitted']_vars

\* Submitted, and a later submit with invalid values has marked a field
C2_Witness ==
  /\ Submitted
  /\ \E f \in Fields : ariaInvalid[f] = "true" /\ ~FieldOk(f, value[f])

\* the first member of S in the sequence order
FirstIn(order, S) ==
  order[CHOOSE i \in 1..Len(order) :
          /\ order[i] \in S
          /\ \A j \in 1..(i - 1) : order[j] \notin S]

\* C3 as stated: on a submit where validateForm() is false, focus moves to the
\* first field marked invalid in declaration order, whatever the arrangement
\* of the fields in the document, and nothing is hidden or shown.
C3_FocusFirstDeclared ==
  [][ (handleFormSubmit /\ ~AllFieldsOk)
        => /\ focused' = FirstIn(FieldOrder, MarkedInvalid(ariaInvalid'))
           /\ UNCHANGED <<fieldDisplay, submitDisplay, successVisible>>
    ]_vars

\* C3 amended: on a submit in the Editing phase where validateForm() is false,
\* focus moves to the first field marked invalid in document order, and
\* nothing is hidden or shown.
C3_FocusFirstInDocument ==
  [][ (handleFormSubmit /\ ~AllFieldsOk /\ Editing)
        => /\ focused' = FirstIn(docOrder, MarkedInvalid(ariaInvalid'))
           /\ UNCHANGED <<fieldDisplay, submitDisplay, successVisible>>
    ]_vars

\* a failed submit left the focus on a field that follows another invalid
\* field in declaration order
C3_Witness ==
  /\ Editing
  /\ defaultPrevented
  /\ focused \in Fields
  /\ focused = FirstIn(docOrder, MarkedInvalid(ariaInvalid))
  /\ focused # FirstIn(FieldOrder, MarkedInvalid(ariaInvalid))

\* C4: if the form, one of the five fields or one of the five error elements
\* is absent at initialization, the engine logs a warning, registers no
\* handler and lets no exception out.
C4_MissingElementIsNoOp ==
  (pc = "ready" /\ ({"waitlist-form"} \cup Fields \cup ErrorElements) \ present # {})
    => (warned /\ handlers = {} /\ ~thrown)

\* C5 as stated: once a field has been marked invalid, every later input event
\* on it leaves its invalid flag and error text reflecting its current value,
\* also after the field has become valid again.
C5_InputRevalidatesOnceInvalid ==
  [][ \A f \in Fields : \A v \in Values[f] :
        (onFieldInput(f, v) /\ f \in everInvalid) => UIReflects(f)'
    ]_vars

\* C5 amended: while a field is marked invalid, an input event on it leaves
\* its invalid flag and error text reflecting its current value.
C5_InputRevalidatesWhileInvalid ==
  [][ \A f \in Fields : \A v \in Values[f] :
        (onFieldInput(f, v) /\ ariaInvalid[f] = "true") => UIReflects(f)'
    ]_vars

\* a field that was marked invalid is valid again
C5_Witness ==
  \E f \in Fields :
    /\ f \in everInvalid
    /\ ariaInvalid[f] = "false"
    /\ FieldOk(f, value[f])

\* C6: an input event on a field that has never been marked invalid leaves
\* its invalid flag, error class and error text unchanged.
C6_UntouchedInputShowsNothing ==
  [][ \A f \in Fields : \A v \in Values[f] :
        (onFieldInput(f, v) /\ f \notin everInvalid)
          => UNCHANGED <<ariaInvalid[f], errorClass[f], errorText[f]>>
    ]_vars

\* an invalid value was typed into a field that nothing has validated yet
C6_Witness ==
  \E f \in Fields :
    /\ f \notin everInvalid
    /\ value[f] # <<>>
    /\ ~FieldOk(f, value[f])
    /\ ariaInvalid[f] = "null"
    /\ errorText[f] = ""

\* C7: in a submit event validateForm() returns true iff validateField returns
\* true for each of the five fields on its current value.
C7_FormValidIffAllFieldsValid ==
  [][ handleFormSubmit
        => (validateForm(value, Dom).ret
              <=> \A f \in Fields : validateField(f, value, Dom).ret)
    ]_vars

\* a submit found exactly one field invalid, and it is not the last one
C7_Witness ==
  /\ defaultPrevented
  /\ Editing
  /\ focused \in Fields \ {"goal"}
  /\ MarkedInvalid(ariaInvalid) = {focused}
  /\ \A f \in Fields : FieldOk(f, value[f]) <=> f # focused

\* C8: after a submit event each field's invalid flag, error class and error
\* text are those of the validation of its own current value, also when an
\* earlier field failed.
C8_SubmitValidatesEveryField ==
  [][ handleFormSubmit
        => \A f \in Fields :
             LET own == validateField(f, value', Dom).dom IN
             /\ ariaInvalid'[f] = own.ariaInvalid[f]
             /\ errorClass'[f] = own.errorClass[f]
             /\ errorText'[f] = own.errorText[f]
    ]_vars

\* a submit marked the first and the last field of the iteration invalid
C8_Witness ==
  /\ defaultPrevented
  /\ focused \in Fields
  /\ ariaInvalid["email"] = "true"
  /\ ariaInvalid["goal"] = "true"
  /\ errorText["goal"] = fieldValidations["goal"].requiredMessage
  /\ ariaInvalid["name"] = "false"

\* C9: validateField applies the rules in the order required, minimum length,
\* email format and reports the message of the first that fails; it returns
\* true with an empty message exactly when every configured rule passes on
\* the trimmed value.
C9_RulePriority ==
  call.fn = "validateField" =>
    LET f == call.field
        raw == value[f]
    IN /\ errorText[f] =
            (IF RequiredFails(f, raw) THEN fieldValidations[f].requiredMessage
             ELSE IF MinLengthFails(f, raw) THEN fieldValidations[f].minLengthMessage
             ELSE IF EmailFails(f, raw) THEN fieldValidations[f].emailMessage
             ELSE "")
       /\ call.ret <=> FieldOk(f, raw)
       /\ call.ret <=> errorText[f] = ""

\* a blank value fails both rules of the email field and the required
\* message is the one reported
C9_Witness ==
  /\ call.fn = "validateField"
  /\ call.field = "email"
  /\ value["email"] # <<>>
  /\ RequiredFails("email", value["email"])
  /\ EmailFails("email", value["email"])
  /\ errorText["email"] = "Email address is required"

\* C10: validateEmail accepts exactly the values made of a non-empty run of
\* non-space non-@ characters, '@', such a run, '.', such a run; "a@b.co" is
\* accepted, "no-at-sign.com" and "a@b" are rejected.
C10_EmailFormat ==
  call.fn = "validateEmail" =>
    LET s == value[call.field] IN
    /\ call.ret <=> EmailFormat(s)
    /\ s = <<"a", "@", "b", ".", "c", "o">> => call.ret
    /\ s = <<"n", "o", "-", "a", "t", "-", "s", "i", "g", "n", ".", "c", "o", "m">> => ~call.ret
    /\ s = <<"a", "@", "b">> => ~call.ret

\* validateEmail accepted a five-character address
C10_Witness ==
  /\ call.fn = "validateEmail"
  /\ call.ret
  /\ Len(value[call.field]) = 5


\* a value with no character other than white space
IsBlank(raw) == \A i \in 1..Len(raw) : IsSpace(raw[i])

\* the required message configured for each field
RequiredMessageOf(f) ==
  CASE f = "email"      -> "Email address is required"
    [] f = "name"       -> "Full name is required"
    [] f = "role"       -> "Current role is required"
    [] f = "experience" -> "Please select your years of experience"
    [] f = "goal"       -> "Please select your primary goal"

\* C11: for each of the five fields, validating an empty or whitespace-only
\* value returns invalid and shows that field's own required message.
C11_BlankShowsRequiredMessage ==
  (call.fn = "validateField" /\ IsBlank(value[call.field]))
    => /\ ~call.ret
       /\ errorText[call.field] = RequiredMessageOf(call.field)
       /\ ariaInvalid[call.field] = "true"

\* a whitespace-only value of the last field got that field's message
C11_Witness ==
  /\ call.fn = "validateField"
  /\ call.field = "goal"
  /\ Len(value["goal"]) >= 2
  /\ IsBlank(value["goal"])
  /\ errorText["goal"] = "Please select your primary goal"

\* C12: for the name field a value of trimmed length 1 is invalid with the
\* minimum-length message, and a value of trimmed length 2 or more is valid.
C12_NameMinLength ==
  (call.fn = "validateField" /\ call.field = "name")
    => LET n == Len(Trim(value["name"])) IN
       /\ n = 1 => /\ ~call.ret
                   /\ errorText["name"] = "Name must be at least 2 characters"
       /\ n >= 2 => /\ call.ret
                    /\ errorText["name"] = ""
                    /\ ariaInvalid["name"] = "false"

\* a name of two characters between spaces was accepted
C12_Witness ==
  /\ call.fn = "validateField"
  /\ call.field = "name"
  /\ Len(value["name"]) > 2
  /\ Len(Trim(value["name"])) = 2
  /\ call.ret


\* C13: validateField called twice in a row on an unchanged value returns the
\* same result and leaves the same invalid flag, error class and error text.
C13_ValidateFieldIdempotent ==
  [][ callValidateFieldAgain
        => /\ call'.ret = call.ret
           /\ UNCHANGED <<ariaInvalid, errorClass, errorText>>
    ]_vars

\* the second call on an invalid value is over and the error is still shown
C13_Witness ==
  /\ pc = "again"
  /\ ~call.ret
  /\ ariaInvalid[call.field] = "true"
  /\ errorClass[call.field]
  /\ errorText[call.field] # ""


\* C14: a submit where validateForm() is true leaves every field container
\* hidden, the submit control hidden and the success message visible, with
\* the default action of the event suppressed.
C14_ValidSubmitShowsSuccess ==
  [][ (handleFormSubmit /\ validateForm(value, Dom).ret)
        => /\ \A f \in Fields : fieldDisplay'[f] = "none"
           /\ submitDisplay' = "none"
           /\ successVisible'
           /\ defaultPrevented'
    ]_vars

\* the success view right after the valid submit: every field validated
\* valid, the message scrolled into view
C14_Witness ==
  /\ Submitted
  /\ scrolled
  /\ defaultPrevented
  /\ \A f \in Fields : ariaInvalid[f] = "false" /\ errorText[f] = ""

\* C15: a blur or input event on one field changes at most that field's own
\* invalid flag, error class and error text; the phase, the success message,
\* the focus and every other field's state stay as they were.
C15_FieldEventIsLocal ==
  [][ \A f \in Fields :
        (onFieldBlur(f) \/ \E v \in Values[f] : onFieldInput(f, v))
          => /\ UNCHANGED <<fieldDisplay, submitDisplay, successVisible, focused>>
             /\ \A g \in Fields \ {f} :
                  UNCHANGED <<value[g], ariaInvalid[g], errorClass[g], errorText[g]>>
    ]_vars

\* before any submit one field shows an error while another, holding an
\* invalid value, has not been validated
C15_Witness ==
  /\ ~defaultPrevented
  /\ Editing
  /\ focused = "body"
  /\ \E f \in Fields : ariaInvalid[f] = "true" /\ errorText[f] # ""
  /\ \E g \in Fields : ariaInvalid[g] = "null" /\ ~FieldOk(g, value[g])

\* C16: a blur event on a field validates it whether or not it was marked
\* invalid before: right after the blur its invalid flag and error text are
\* those of its current trimmed value.
C16_BlurAlwaysValidates ==
  [][ \A f \in Fields :
        onFieldBlur(f)
          => /\ UIReflects(f)'
             /\ errorClass'[f] = ~FieldOk(f, value'[f])
    ]_vars

\* before any submit a field that was never marked invalid is flagged valid
C16_Witness ==
  /\ ~defaultPrevented
  /\ \E f \in Fields :
       /\ f \notin everInvalid
       /\ ariaInvalid[f] = "false"
       /\ FieldOk(f, value[f])
  /\ \E g \in Fields : g \in everInvalid /\ ariaInvalid[g] = "true"

\* C17: for every field, aria-invalid is 'true' iff the field carries the
\* error class iff its error element's text is not empty.
C17_ErrorUIAgrees ==
  \A f \in Fields :
    /\ (ariaInvalid[f] = "true") <=> errorClass[f]
    /\ errorClass[f] <=> (errorText[f] # "")

\* a field that was invalid and is valid again next to one that is invalid
C17_Witness ==
  /\ pc = "ready"
  /\ \E f \in Fields : ariaInvalid[f] = "true" /\ errorClass[f] /\ errorText[f] # ""
  /\ \E g \in Fields : ariaInvalid[g] = "false" /\ ~errorClass[g] /\ errorText[g] = ""


\* C18 as stated: once the whole script has run, a click on the menu toggle
\* inverts aria-expanded: not 'true' becomes 'true', 'true' becomes 'false'.
C18_ClickInvertsExpanded ==
  [][ menuToggleClick
        => /\ ariaExpanded # "true" => ariaExpanded' = "true"
           /\ ariaExpanded = "true" => ariaExpanded' = "false"
    ]_vars

\* the closures whose callback runs in the next animation frame
Requested == {rafQueue[i] : i \in 1..Len(rafQueue)}

\* C19: an update that sees a scroll position of 100 or less shows the
\* header; the header becomes hidden only in an update whose position is
\* greater than 200 and greater than the position the previous update saw;
\* so the header is hidden only if the last position seen is greater than 100.
C19_HeaderHiddenOnlyBelowTop ==
  [][ /\ (animationFrame /\ scrollY <= 100) => ~headerHidden'
      /\ (~headerHidden /\ headerHidden')
           => /\ animationFrame
              /\ scrollY > 200
              /\ \E h \in Requested : scrollY > lastScrollY[h]
      /\ headerHidden' => \A h \in 1..Len(lastScrollY') : lastScrollY'[h] > 100
    ]_vars

\* the header is hidden after an update and nothing is pending
C19_Witness ==
  /\ headerHidden
  /\ rafQueue = <<>>
  /\ scrollY > 200
  /\ \A h \in 1..Len(lastScrollY) : lastScrollY[h] = scrollY

\* number of callbacks of closure h in the queue q
Pending(h, q) == Cardinality({i \in 1..Len(q) : q[i] = h})

\* C20: each scroll handler has at most one animation-frame callback pending;
\* its ticking flag is true exactly while that callback has not run; a scroll
\* event that arrives meanwhile requests nothing, and a scroll event that
\* arrives when none is pending requests one.
C20_ScrollThrottle ==
  [][ /\ \A h \in 1..Len(ticking') :
           /\ Pending(h, rafQueue') <= 1
           /\ ticking'[h] <=> Pending(h, rafQueue') = 1
      /\ \A y \in ScrollPositions :
           scroll(y) =>
             \A h \in 1..Len(ticking) :
               IF ticking[h]
                 THEN Pending(h, rafQueue') = Pending(h, rafQueue)
                 ELSE Pending(h, rafQueue) = 0 /\ Pending(h, rafQueue') = 1
      /\ animationFrame => \A h \in Requested : ~ticking'[h] /\ Pending(h, rafQueue') = 0
    ]_vars

\* both closures wait for the frame, after an earlier frame has run and the
\* page has been scrolled on
C20_Witness ==
  /\ Len(rafQueue) = 2
  /\ \A h \in 1..Len(ticking) : ticking[h] /\ Pending(h, rafQueue) = 1
  /\ headerHidden
  /\ scrollY # lastScrollY[1]


----------------------------------------------------------------------------
\* C21: once initExternalLinks has run, every link whose target is "_blank"
\* has rel = "noopener noreferrer", whatever its rel was in the markup
\* (absent, empty, or another value).
C21_BlankLinksCarryRel ==
  linksInitialized =>
    \A l \in DOMAIN target :
      target[l] = "_blank" => rel[l] = "noopener noreferrer"

====
